---- MODULE Spec2Model ----
(***************************************************************************)
(* A model of coreos-cloud-instance-store-provisioner (src/src/main.rs).   *)
(*                                                                         *)
(* Strings the program inspects character by character (the kernel         *)
(* command line, lsblk attributes, LVM names, device paths) are sequences  *)
(* of one-character strings.  Directory paths are sequences of path        *)
(* components, as std::path::Path sees them: "/" is <<>> and               *)
(* "/var/lib" is <<"var", "lib">>.                                         *)
(* Option<T> is a sequence of length 0 (None) or 1 (Some).                 *)
(***************************************************************************)
EXTENDS Naturals, Sequences, FiniteSets, TLC

\* ---------------------------------------------------------------- bounds
\* Longest kernel command line of the find_flag_value harness.
MaxCmdLen == 6
\* Most children of the device of the Azure filter harness.
MaxChildren == 2
\* Most block devices lsblk reports in a run.
MaxDevs == 2
\* Most entries of the configured directory list.
MaxDirs == 2
\* Runs of the program on one node.
MaxRuns == 2

\* ------------------------------------------------------ program constants
LABEL == "ccisp-store"
MOUNTPOINT == <<"var", "mnt", "instance-storage">>
CMDLINE_PLATFORM_FLAG == <<"i", "g", "n", "i", "t", "i", "o", "n", ".", "p", "l", "a", "t", "f", "o", "r", "m", ".", "i", "d">>
INSTANCE_MODEL == <<"A", "m", "a", "z", "o", "n", " ", "E", "C", "2", " ", "N", "V", "M", "e", " ", "I", "n", "s", "t", "a", "n", "c", "e", " ", "S", "t", "o", "r", "a", "g", "e">>
MODEL == <<"V", "i", "r", "t", "u", "a", "l", " ", "D", "i", "s", "k">>
FSTYPE == <<"n", "t", "f", "s">>
AZURE_LABEL == <<"T", "e", "m", "p", "o", "r", "a", "r", "y", " ", "S", "t", "o", "r", "a", "g", "e">>
PREFIX == <<"C", "o", "r", "e", "O", "S", "Q", "E", "M", "U", "I", "n", "s", "t", "a", "n", "c", "e">>
\* The names main passes to lvm::new_striped_lv.
LVNAME == <<"s", "t", "r", "i", "p", "e", "d">>
VGNAME == <<"c", "o", "r", "e", "o", "s", "-", "i", "n", "s", "t", "a", "n", "c", "e", "-", "v", "g">>

\* The platform identifiers main dispatches on.
STR_aws == <<"a", "w", "s">>
STR_azure == <<"a", "z", "u", "r", "e">>
STR_qemu == <<"q", "e", "m", "u">>

\* ------------------------------------------------------------- Option<T>
None == <<>>
Some(v) == <<v>>
IsSome(o) == Len(o) = 1
Unwrap(o) == o[1]

\* ------------------------------------------------------ string functions
\* The characters str::trim removes (Unicode White_Space, as far as the
\* model's alphabets hold any).
WhiteSpace == {" ", "\t", "\n"}

RECURSIVE trim_start(_)
trim_start(s) ==
    IF s # <<>> /\ Head(s) \in WhiteSpace THEN trim_start(Tail(s)) ELSE s

RECURSIVE trim_end(_)
trim_end(s) ==
    IF s # <<>> /\ s[Len(s)] \in WhiteSpace
    THEN trim_end(SubSeq(s, 1, Len(s) - 1))
    ELSE s

\* A trim that forgets the trailing side.
trim_leading_only(s) == trim_start(s)

\* str::trim
trim(s) == trim_end(trim_start(s))

\* The index of the first c in s, 0 when there is none.
IndexOf(s, c) ==
    IF \E i \in 1..Len(s) : s[i] = c
    THEN CHOOSE i \in 1..Len(s) : s[i] = c /\ \A j \in 1..(i - 1) : s[j] # c
    ELSE 0

\* str::split(c): the pieces between the occurrences of c, empty ones kept.
RECURSIVE split(_, _)
split(s, c) ==
    LET i == IndexOf(s, c)
    IN  IF i = 0
        THEN <<s>>
        ELSE <<SubSeq(s, 1, i - 1)>> \o split(SubSeq(s, i + 1, Len(s)), c)

\* str::splitn(2, c): the whole string, or what is before and after the
\* first c.
splitn2(s, c) ==
    LET i == IndexOf(s, c)
    IN  IF i = 0
        THEN <<s>>
        ELSE <<SubSeq(s, 1, i - 1), SubSeq(s, i + 1, Len(s))>>

\* str::starts_with
starts_with(s, p) == Len(s) >= Len(p) /\ SubSeq(s, 1, Len(p)) = p

\* -------------------------------------------------------------- coreos
\* A closure that keeps only the tokens with exactly one '='.
key_value_single_eq(s) ==
    LET kv == split(s, "=")
    IN  IF Len(kv) = 2 THEN Some(<<kv[1], kv[2]>>) ELSE None

\* The closure of find_flag_value: a token with a '=' is a (key, value).
key_value(s) ==
    LET kv == splitn2(s, "=")
    IN  IF Len(kv) = 2 THEN Some(<<kv[1], kv[2]>>) ELSE None

\* The loop of find_flag_value returning the first match, empty or not.
RECURSIVE find_first_match(_, _)
find_first_match(flagname, params) ==
    IF params = <<>>
    THEN None
    ELSE IF Head(params)[1] # flagname
         THEN find_first_match(flagname, Tail(params))
         ELSE IF trim(Head(params)[2]) # <<>>
              THEN Some(trim(Head(params)[2]))
              ELSE None

\* The loop of find_flag_value over the (key, value) pairs.
RECURSIVE find_in_params(_, _)
find_in_params(flagname, params) ==
    IF params = <<>>
    THEN None
    ELSE IF Head(params)[1] # flagname
         THEN find_in_params(flagname, Tail(params))
         ELSE IF trim(Head(params)[2]) # <<>>
              THEN Some(trim(Head(params)[2]))
              ELSE find_in_params(flagname, Tail(params))

\* The filter_map of find_flag_value: the (key, value) pairs of the tokens.
RECURSIVE key_values(_)
key_values(tokens) ==
    IF tokens = <<>>
    THEN <<>>
    ELSE key_value(Head(tokens)) \o key_values(Tail(tokens))

find_flag_value(flagname, cmdline) ==
    find_in_params(flagname, key_values(split(cmdline, " ")))

\* --------------------------------------------------------------- block
\* block::Device, as lsblk -J reports it.
Device(name, serial, model, label, fstype, children) ==
    [name |-> name, serial |-> serial, model |-> model, label |-> label,
     fstype |-> fstype, children |-> children]

\* Device::path
path(d) == <<"/", "d", "e", "v", "/">> \o d.name

\* ----------------------------------------------------------------- lvm
\* A name passed through unescaped.
escape_nothing(name) == name

\* lvm::escape: name.replace('-', "--")
RECURSIVE escape(_)
escape(name) ==
    IF name = <<>>
    THEN <<>>
    ELSE (IF Head(name) = "-" THEN <<"-", "-">> ELSE <<Head(name)>>)
         \o escape(Tail(name))

\* The path new_striped_lv returns.
lv_path(lvname, vgname) ==
    <<"/", "d", "e", "v", "/", "m", "a", "p", "p", "e", "r", "/">>
    \o escape(vgname) \o <<"-">> \o escape(lvname)

\* ----------------------------------------------------------------- aws
aws_filter(d) ==
    IsSome(d.model) /\ trim(Unwrap(d.model)) = INSTANCE_MODEL

\* --------------------------------------------------------------- azure
\* A filter that accepts any device with children, looking at the first.
filtermap_first_child(d) ==
    IF ~IsSome(d.children) \/ Len(Unwrap(d.children)) = 0
    THEN None
    ELSE LET child == Unwrap(d.children)[1]
         IN  IF /\ IsSome(child.label)
                /\ IsSome(child.fstype)
                /\ trim(Unwrap(child.label)) = AZURE_LABEL
                /\ trim(Unwrap(child.fstype)) = FSTYPE
             THEN Some(path(d))
             ELSE None

filtermap_child_ntfs(d) ==
    IF ~IsSome(d.children)
    THEN None
    ELSE IF Len(Unwrap(d.children)) # 1
         THEN None
         ELSE LET child == Unwrap(d.children)[1]
              IN  IF /\ IsSome(child.label)
                     /\ IsSome(child.fstype)
                     /\ trim(Unwrap(child.label)) = AZURE_LABEL
                     /\ trim(Unwrap(child.fstype)) = FSTYPE
                  THEN Some(path(d))
                  ELSE None

\* The filter of azure::devices on the model.
azure_filter(d) ==
    IsSome(d.model) /\ trim(Unwrap(d.model)) = MODEL

\* What azure::devices makes of one device before wiping it.
azure_select(d) ==
    IF azure_filter(d) THEN filtermap_child_ntfs(d) ELSE None

\* ---------------------------------------------------------------- qemu
qemu_filter(d) ==
    IsSome(d.serial) /\ starts_with(trim(Unwrap(d.serial)), PREFIX)

\* ------------------------------------------------- platform selection
\* The device paths {aws,azure,qemu}::devices select from lsblk's list, in
\* lsblk's order (for azure: the ones it goes on to wipe).
RECURSIVE selected_paths(_, _)
selected_paths(platform, devs) ==
    IF devs = <<>>
    THEN <<>>
    ELSE LET d == Head(devs)
             one == IF platform = STR_aws
                    THEN (IF aws_filter(d) THEN Some(path(d)) ELSE None)
                    ELSE IF platform = STR_azure
                    THEN azure_select(d)
                    ELSE (IF qemu_filter(d) THEN Some(path(d)) ELSE None)
         IN  one \o selected_paths(platform, Tail(devs))

\* ------------------------------------------------------------- the state
VARIABLES
    \* The node: what the program reads.
    config,         \* the configuration file at CONFIG_PATH
    cmdline,        \* Option: /proc/cmdline, once it has been read
    blockdevices,   \* Option: the devices lsblk lists, once it has listed them
    \* The node: what the program and its collaborators change.
    fs,             \* existing path |-> its security context
    unitfiles,      \* unit name |-> unit text, under /etc/systemd/system
    loaded,         \* the unit files the service manager has loaded
    enabled,        \* the units enabled and started
    wiped,          \* device paths whose signatures wipefs erased
    pvs,            \* LVM physical volumes
    vgs,            \* LVM volume groups
    lvs,            \* LVM logical volumes
    formatted,      \* devices mkfs.xfs formatted, with their label
    \* One run of main.
    pc,             \* the statement main is at
    platform,       \* the platform get_platform returned
    instance_devs,  \* main's instance_devs
    dev,            \* main's dev, the device to format
    units,          \* main's units, the bind-mount units to enable
    i,              \* the index of the loop main is in
    status,         \* the exit status, once pc = "done"
    reason,         \* why the run ended
    calls,          \* the collaborator calls and filesystem operations of
                    \* this run, in order
    fs0,            \* fs as it was when this run started
    run_no,         \* the number of this run on the node
    prev,           \* why the previous run on the node ended
    \* The harness of coreos::find_flag_value.
    f_flagname, f_cmdline, f_result, f_pc,
    \* The harness of the Azure device filter.
    a_dev, a_result, a_pc,
    \* The harness of systemd::write_mount_unit.
    m_what, m_where, m_type, m_opts, m_files, m_name, m_pc

envvars == <<config, cmdline, blockdevices>>
lvmvars == <<pvs, vgs, lvs>>
unitvars == <<unitfiles, loaded, enabled>>
hostvars == <<fs, unitfiles, loaded, enabled, wiped, pvs, vgs, lvs, formatted>>
localvars == <<platform, instance_devs, dev, units, i>>
runvars == <<fs0, run_no, prev>>
mainvars ==
    <<envvars, hostvars, pc, localvars, status, reason, calls, runvars>>
flagvars == <<f_flagname, f_cmdline, f_result, f_pc>>
azurevars == <<a_dev, a_result, a_pc>>
mountvars == <<m_what, m_where, m_type, m_opts, m_files, m_name, m_pc>>
vars == <<mainvars, flagvars, azurevars, mountvars>>

\* All sequences over S of length at most n.
SeqsUpTo(S, n) == UNION {[1..k -> S] : k \in 0..n}

\* ------------------------------------------- the node a run starts on
\* The directories a configuration may name: nested ones, ones sharing a
\* final component, and "/" (which has no final component).
DirUniverse ==
    { <<"var", "lib">>, <<"var", "lib", "containers">>,
      <<"var", "log">>, <<"var", "log", "containers">>, <<>> }

Configs ==
    { [state |-> "absent", directories |-> <<>>],
      [state |-> "malformed", directories |-> <<>>] }
    \cup { [state |-> "present", directories |-> ds] :
             ds \in SeqsUpTo(DirUniverse, MaxDirs) }

BasePaths ==
    { <<>>, <<"etc">>, <<"etc", "systemd">>, <<"etc", "systemd", "system">>,
      <<"var">>, <<"var", "mnt">>, <<"var", "lib">> }

PopulatedPaths ==
    BasePaths \cup
    { <<"var", "lib", "containers">>,
      <<"var", "lib", "containers", "storage">>,
      <<"var", "log">>, <<"var", "log", "messages">>,
      <<"var", "log", "containers">>,
      <<"var", "log", "containers", "pod.log">> }

\* The security context a path has before any run: its own.
OwnContext(p) == <<"context of">> \o p
\* The security context of a directory nobody labelled.
DefaultContext == <<"default context">>

InitialFilesystems ==
    { [p \in S |-> OwnContext(p)] : S \in {BasePaths, PopulatedPaths} }

\* The kernel command lines of the nodes.
Flag(value) == CMDLINE_PLATFORM_FLAG \o <<"=">> \o value
Cmdlines ==
    { <<"B", "O", "O", "T", "_", "I", "M", "A", "G", "E", "=", "/", "x", " ">>
        \o Flag(STR_aws)
        \o <<" ", "c", "o", "n", "s", "o", "l", "e", "=", "t", "t", "y", "S", "0">>,
      Flag(STR_azure) \o <<"\n">>,
      <<"r", "w", " ">> \o Flag(STR_qemu) \o <<"\n">>,
      Flag(<<"m", "e", "t", "a", "l">>) \o <<"\n">>,
      <<"c", "o", "n", "s", "o", "l", "e", "=", "t", "t", "y", "S", "0", "\n">> }

\* The kinds of block device lsblk lists.
NoChildren == None
Partition(label, fstype) ==
    Device(<<"p">>, None, None, label, fstype, NoChildren)
DeviceOfKind(kind, name) ==
    CASE kind = "nvme" ->
           Device(name, None, Some(INSTANCE_MODEL \o <<" ", " ">>), None, None,
                  NoChildren)
      [] kind = "azure_temp" ->
           Device(name, None, Some(MODEL \o <<" ">>), None, None,
                  Some(<<Partition(Some(AZURE_LABEL), Some(FSTYPE))>>))
      [] kind = "azure_os" ->
           Device(name, None, Some(MODEL \o <<" ">>), None, None,
                  Some(<<Partition(None, Some(<<"v", "f", "a", "t">>)),
                         Partition(Some(<<"r", "o", "o", "t">>),
                                   Some(<<"x", "f", "s">>))>>))
      [] kind = "qemu" ->
           Device(name, Some(PREFIX \o <<"-", "1">>), None, None, None,
                  NoChildren)
DeviceKinds == {"nvme", "azure_temp", "azure_os", "qemu"}
DeviceName(k) ==
    <<"s", "d">> \o <<(<<"a", "b", "c", "d", "e", "f">>)[k]>>
DeviceLists ==
    { [k \in DOMAIN kinds |-> DeviceOfKind(kinds[k], DeviceName(k))] :
        kinds \in SeqsUpTo(DeviceKinds, MaxDevs) }

\* ------------------------------------------------------ paths and files
UNIT_DIR == <<"etc", "systemd", "system">>
CMDLINE_PATH == <<"proc", "cmdline">>
VAR == <<"var">>
ROOT == <<>>

Parent(p) == SubSeq(p, 1, Len(p) - 1)
IsPrefix(a, b) == Len(a) <= Len(b) /\ SubSeq(b, 1, Len(a)) = a

\* A name that is the component before the final one.
file_name_of_parent(d) == IF Len(d) < 2 THEN None ELSE Some(d[Len(d) - 1])

\* Path::file_name: the final component, None for "/".
file_name(d) == IF d = <<>> THEN None ELSE Some(d[Len(d)])

\* Path::join with a file name.
join(base, name) == Append(base, name)

\* A create_dir that accepts a directory that is already there, as
\* create_dir_all does.
create_dir_all_allowed(f, p) == p # <<>> /\ Parent(p) \in DOMAIN f

\* Whether std::fs::create_dir can succeed: it makes one new directory in
\* an existing parent.
create_dir_allowed(f, p) ==
    p \notin DOMAIN f /\ p # <<>> /\ Parent(p) \in DOMAIN f

create_dir(f, p) ==
    [q \in DOMAIN f \cup {p} |-> IF q = p THEN DefaultContext ELSE f[q]]

\* A removal of the directory entry alone.
remove_entry(f, d) == [q \in DOMAIN f \ {d} |-> f[q]]

\* OpenatDirExt::remove_all: d and everything under it; no error when d is
\* not there.
remove_all(f, d) == [q \in {r \in DOMAIN f : ~IsPrefix(d, r)} |-> f[q]]

\* What chcon --reference=src dest does.
copy_context(f, src, dest) == [f EXCEPT ![dest] = f[src]]

\* ------------------------------------------------------------- systemd
\* unit::escape_path: the components of the path joined by '-'.
RECURSIVE escape_path(_)
escape_path(where) ==
    IF where = <<>>
    THEN <<"-">>
    ELSE IF Len(where) = 1
         THEN where
         ELSE <<Head(where), "-">> \o escape_path(Tail(where))

unit_name(where) == escape_path(where) \o <<".mount">>

\* A text that leaves the dependency on what out of a bind mount.
unit_text_bind_without_requires(what_path, where_path, mnt_type, opts) ==
    IF mnt_type = "none" /\ opts = Some("bind")
    THEN [Before |-> "local-fs.target",
          What |-> what_path,
          Where |-> where_path,
          Type |-> mnt_type,
          Options |-> opts,
          WantedBy |-> "local-fs.target"]
    ELSE [Before |-> "local-fs.target",
          RequiresMountsFor |-> what_path,
          What |-> what_path,
          Where |-> where_path,
          Type |-> mnt_type,
          Options |-> opts,
          WantedBy |-> "local-fs.target"]

\* The text write_mount_unit writes, section by section.
unit_text(what_path, where_path, mnt_type, opts) ==
    [Before |-> "local-fs.target",
     RequiresMountsFor |-> what_path,
     What |-> what_path,
     Where |-> where_path,
     Type |-> mnt_type,
     Options |-> opts,
     WantedBy |-> "local-fs.target"]

\* The unit files after write_mount_unit, which replaces a file of the
\* same name.
write_mount_unit(files, what_path, where_path, mnt_type, opts) ==
    [n \in DOMAIN files \cup {unit_name(where_path)} |->
        IF n = unit_name(where_path)
        THEN unit_text(what_path, where_path, mnt_type, opts)
        ELSE files[n]]

\* -------------------------------------------------------- running tools
ExitCodes == {0, 1}

\* A run that does not look at the exit status.
run_unchecked(exit) == TRUE

\* CommandRunExt::run: Ok exactly when the child exited with success.
run(exit) == exit = 0

\* The record of one collaborator call or filesystem operation.
Call(step, idx, cmd, flags, targets, exit) ==
    [step |-> step, idx |-> idx, cmd |-> cmd, flags |-> flags,
     targets |-> targets, exit |-> exit]

Finish(st, why) == pc' = "done" /\ status' = st /\ reason' = why
Goto(label) == pc' = label /\ UNCHANGED <<status, reason>>

\* ------------------------------------------------------------ harnesses
FlagIdle ==
    f_flagname = <<>> /\ f_cmdline = <<>> /\ f_result = None /\ f_pc = "idle"
AzureIdle ==
    /\ a_dev = Device(<<>>, None, None, None, None, NoChildren)
    /\ a_result = None
    /\ a_pc = "idle"
MountIdle ==
    /\ m_what = <<>>
    /\ m_where = <<>>
    /\ m_type = ""
    /\ m_opts = None
    /\ m_files = <<>>
    /\ m_name = None
    /\ m_pc = "idle"
harness == UNCHANGED <<flagvars, azurevars, mountvars>>

\* ------------------------------------------------------------------ main
\* The state of main when a run starts.
RunStart ==
    /\ pc = "start"
    /\ platform = <<>>
    /\ instance_devs = <<>>
    /\ dev = <<>>
    /\ units = <<>>
    /\ i = 0
    /\ status = 0
    /\ reason = "running"
    /\ calls = <<>>

Init ==
    /\ config \in Configs
    /\ cmdline = None
    /\ blockdevices = None
    /\ fs \in InitialFilesystems
    /\ unitfiles = <<>>
    /\ loaded = <<>>
    /\ enabled = {}
    /\ wiped = {}
    /\ pvs = {}
    /\ vgs = {}
    /\ lvs = {}
    /\ formatted = {}
    /\ RunStart
    /\ fs0 = fs
    /\ run_no = 1
    /\ prev = "none"
    /\ FlagIdle
    /\ AzureIdle
    /\ MountIdle

\* What main makes of the configuration file, accepting an empty list.
check_config_any_list(c) ==
    IF c.state = "absent"
    THEN "absent"
    ELSE IF c.state = "malformed" THEN "invalid" ELSE "ok"

\* What main makes of the configuration file.
check_config(c) ==
    IF c.state = "absent"
    THEN "absent"
    ELSE IF c.state = "malformed"
         THEN "invalid"
         ELSE IF c.directories = <<>> THEN "invalid" ELSE "ok"

ReadConfig ==
    /\ pc = "start"
    /\ IF check_config(config) = "absent"
       THEN Finish(0, "no_config")
       ELSE IF check_config(config) = "invalid"
            THEN Finish(1, "error")
            ELSE Goto("get_platform")
    /\ UNCHANGED <<envvars, hostvars, localvars, calls, runvars>>
    /\ harness

\* A dispatch that takes every other platform for qemu.
dispatch_default_qemu(p) ==
    IF p = STR_aws THEN "aws" ELSE IF p = STR_azure THEN "azure" ELSE "qemu"

\* The match of main on the platform.
dispatch(p) ==
    IF p = STR_aws
    THEN "aws"
    ELSE IF p = STR_azure
         THEN "azure"
         ELSE IF p = STR_qemu THEN "qemu" ELSE "other"

\* coreos::get_platform and the match of main on it.
GetPlatform ==
    /\ pc = "get_platform"
    /\ \E content \in Cmdlines, exit \in ExitCodes :
        /\ IsSome(cmdline) => content = Unwrap(cmdline)
        /\ calls' = Append(calls, Call("get_platform", 0, "read", <<>>,
                                       <<CMDLINE_PATH>>, exit))
        /\ IF exit # 0
           THEN Finish(1, "error") /\ UNCHANGED <<cmdline, platform>>
           ELSE /\ cmdline' = Some(content)
                /\ LET r == find_flag_value(CMDLINE_PLATFORM_FLAG, content)
                   IN  IF ~IsSome(r)
                       THEN Finish(1, "error") /\ UNCHANGED platform
                       ELSE /\ platform' = Unwrap(r)
                            /\ IF dispatch(Unwrap(r)) = "other"
                               THEN Finish(0, "unhandled")
                               ELSE Goto("list")
    /\ UNCHANGED <<config, blockdevices, hostvars, instance_devs, dev, units,
                   i, runvars>>
    /\ harness

\* The devices the platform's devices() selects from a listing.
devices(p, devs) ==
    selected_paths(IF dispatch(p) = "aws" THEN STR_aws
                   ELSE IF dispatch(p) = "azure" THEN STR_azure
                   ELSE STR_qemu, devs)

\* block::list and the filters of the platform's devices().
ListDevices ==
    /\ pc = "list"
    /\ \E devs \in DeviceLists, outcome \in {"ok", "failed", "unparsable"} :
        /\ IsSome(blockdevices) => devs = Unwrap(blockdevices)
        /\ calls' = calls
             \o <<Call("list", 0, "lsblk",
                       <<"-J", "-o", "NAME,SERIAL,MODEL,LABEL,FSTYPE">>, <<>>,
                       IF outcome = "failed" THEN 1 ELSE 0)>>
             \o (IF outcome = "unparsable"
                 THEN <<Call("list", 0, "from_reader", <<>>, <<>>, 1)>>
                 ELSE <<>>)
        /\ IF outcome # "ok"
           THEN Finish(1, "error") /\ UNCHANGED <<blockdevices, instance_devs, i>>
           ELSE /\ blockdevices' = Some(devs)
                /\ IF dispatch(platform) = "azure" /\ devices(platform, devs) # <<>>
                   THEN Goto("wipefs") /\ i' = 1 /\ UNCHANGED instance_devs
                   ELSE /\ Goto("select_volume")
                        /\ instance_devs' = devices(platform, devs)
                        /\ UNCHANGED i
    /\ UNCHANGED <<config, cmdline, hostvars, platform, dev, units, runvars>>
    /\ harness

\* A wipe of the first matched device alone.
Wipefs_first_only ==
    /\ pc = "wipefs"
    /\ \E exit \in ExitCodes :
        LET sel == devices(platform, Unwrap(blockdevices))
        IN  /\ calls' = Append(calls, Call("wipefs", i, "wipefs", <<"-a">>,
                                           <<sel[i]>>, exit))
            /\ IF run(exit)
               THEN /\ wiped' = wiped \cup {sel[i]}
                    /\ Goto("select_volume")
                    /\ instance_devs' = sel
                    /\ UNCHANGED i
               ELSE Finish(1, "error") /\ UNCHANGED <<wiped, instance_devs, i>>
    /\ UNCHANGED <<envvars, fs, unitvars, lvmvars, formatted, platform, dev,
                   units, runvars>>
    /\ harness

\* block::wipefs on the next device azure::devices matched.
Wipefs ==
    /\ pc = "wipefs"
    /\ \E exit \in ExitCodes :
        LET sel == devices(platform, Unwrap(blockdevices))
        IN  /\ calls' = Append(calls, Call("wipefs", i, "wipefs", <<"-a">>,
                                           <<sel[i]>>, exit))
            /\ IF run(exit)
               THEN /\ wiped' = wiped \cup {sel[i]}
                    /\ IF i = Len(sel)
                       THEN /\ Goto("select_volume")
                            /\ instance_devs' = sel
                            /\ UNCHANGED i
                       ELSE /\ Goto("wipefs")
                            /\ i' = i + 1
                            /\ UNCHANGED instance_devs
               ELSE Finish(1, "error") /\ UNCHANGED <<wiped, instance_devs, i>>
    /\ UNCHANGED <<envvars, fs, unitvars, lvmvars, formatted, platform, dev,
                   units, runvars>>
    /\ harness

\* A match that builds a striped volume whenever there is not exactly one
\* device.
volume_kind_never_none(n) == IF n = 1 THEN "single" ELSE "striped"

\* A match that builds a striped volume from one device on.
volume_kind_striped_from_one(n) == IF n = 0 THEN "none" ELSE "striped"

\* The match of main on instance_devs.len().
volume_kind(n) ==
    IF n = 0 THEN "none" ELSE IF n = 1 THEN "single" ELSE "striped"

SelectVolume ==
    /\ pc = "select_volume"
    /\ IF volume_kind(Len(instance_devs)) = "none"
       THEN Finish(0, "no_devices") /\ UNCHANGED <<dev, i>>
       ELSE IF volume_kind(Len(instance_devs)) = "single"
            THEN Goto("mkfs") /\ dev' = instance_devs[1] /\ UNCHANGED i
            ELSE /\ Goto(IF instance_devs = <<>> THEN "vgcreate" ELSE "pvcreate")
                 /\ i' = 1
                 /\ UNCHANGED dev
    /\ UNCHANGED <<envvars, hostvars, platform, instance_devs, units, calls,
                   runvars>>
    /\ harness

\* A pvcreate loop that, when it fails, undoes the physical volumes it made.
Pvcreate_cleanup ==
    /\ pc = "pvcreate"
    /\ \E exit \in ExitCodes :
        /\ calls' = Append(calls, Call("pvcreate", i, "lvm", <<"pvcreate">>,
                                       <<instance_devs[i]>>, exit))
        /\ IF run(exit)
           THEN /\ pvs' = pvs \cup {instance_devs[i]}
                /\ IF i = Len(instance_devs)
                   THEN Goto("vgcreate") /\ UNCHANGED i
                   ELSE Goto("pvcreate") /\ i' = i + 1
           ELSE /\ Finish(1, "error")
                /\ pvs' = pvs \ {instance_devs[j] : j \in 1..Len(instance_devs)}
                /\ UNCHANGED i
    /\ UNCHANGED <<envvars, fs, unitvars, wiped, vgs, lvs, formatted, platform,
                   instance_devs, dev, units, runvars>>
    /\ harness

\* lvm::pvcreate on the next device, in the loop of new_striped_lv.
Pvcreate ==
    /\ pc = "pvcreate"
    /\ \E exit \in ExitCodes :
        /\ calls' = Append(calls, Call("pvcreate", i, "lvm", <<"pvcreate">>,
                                       <<instance_devs[i]>>, exit))
        /\ IF run(exit)
           THEN /\ pvs' = pvs \cup {instance_devs[i]}
                /\ IF i = Len(instance_devs)
                   THEN Goto("vgcreate") /\ UNCHANGED i
                   ELSE Goto("pvcreate") /\ i' = i + 1
           ELSE Finish(1, "error") /\ UNCHANGED <<pvs, i>>
    /\ UNCHANGED <<envvars, fs, unitvars, wiped, vgs, lvs, formatted, platform,
                   instance_devs, dev, units, runvars>>
    /\ harness

\* lvm vgcreate in new_striped_lv.
Vgcreate ==
    /\ pc = "vgcreate"
    /\ \E exit \in ExitCodes :
        /\ calls' = Append(calls, Call("vgcreate", 0, "lvm", <<"vgcreate">>,
                                       <<VGNAME>> \o instance_devs, exit))
        /\ IF run(exit)
           THEN /\ vgs' = vgs \cup {[name |-> VGNAME, devices |-> instance_devs]}
                /\ Goto("lvcreate")
           ELSE Finish(1, "error") /\ UNCHANGED vgs
    /\ UNCHANGED <<envvars, fs, unitvars, wiped, pvs, lvs, formatted,
                   localvars, runvars>>
    /\ harness

\* lvm lvcreate in new_striped_lv, and its return to main.
Lvcreate ==
    /\ pc = "lvcreate"
    /\ \E exit \in ExitCodes :
        /\ calls' = Append(calls,
             Call("lvcreate", 0, "lvm",
                  <<"lvcreate", "--type", "striped", "--extents", "100%FREE",
                    "--name">>,
                  <<VGNAME, LVNAME>>, exit))
        /\ IF run(exit)
           THEN /\ lvs' = lvs \cup {[vg |-> VGNAME, name |-> LVNAME,
                                     type |-> "striped"]}
                /\ dev' = lv_path(LVNAME, VGNAME)
                /\ Goto("mkfs")
           ELSE Finish(1, "error") /\ UNCHANGED <<lvs, dev>>
    /\ UNCHANGED <<envvars, fs, unitvars, wiped, pvs, vgs, formatted, platform,
                   instance_devs, units, i, runvars>>
    /\ harness

\* mkfs.xfs -L LABEL dev
Mkfs ==
    /\ pc = "mkfs"
    /\ \E exit \in ExitCodes :
        /\ calls' = Append(calls, Call("mkfs", 0, "mkfs.xfs", <<"-L", LABEL>>,
                                       <<dev>>, exit))
        /\ IF run(exit)
           THEN /\ formatted' = formatted \cup {[dev |-> dev, label |-> LABEL]}
                /\ Goto("create_mountpoint")
           ELSE Finish(1, "error") /\ UNCHANGED formatted
    /\ UNCHANGED <<envvars, fs, unitvars, wiped, lvmvars, localvars, runvars>>
    /\ harness

\* create_dir(MOUNTPOINT)
CreateMountpoint ==
    /\ pc = "create_mountpoint"
    /\ \E exit \in ExitCodes :
        /\ exit = 0 => create_dir_allowed(fs, MOUNTPOINT)
        /\ calls' = Append(calls, Call("create_mountpoint", 0, "create_dir",
                                       <<>>, <<MOUNTPOINT>>, exit))
        /\ IF exit = 0
           THEN fs' = create_dir(fs, MOUNTPOINT) /\ Goto("write_mount_unit")
           ELSE Finish(1, "error") /\ UNCHANGED fs
    /\ UNCHANGED <<envvars, unitvars, wiped, lvmvars, formatted, localvars,
                   runvars>>
    /\ harness

\* The device main mounts: /dev/disk/by-label/LABEL
by_label == <<"dev", "disk", "by-label", LABEL>>

\* systemd::write_mount_unit(&dev, MOUNTPOINT, "xfs", None)
WriteMountUnit ==
    /\ pc = "write_mount_unit"
    /\ \E exit \in ExitCodes :
        /\ exit = 0 => UNIT_DIR \in DOMAIN fs
        /\ calls' = Append(calls, Call("write_mount_unit", 0, "write_file",
                                       <<>>, <<unit_name(MOUNTPOINT)>>, exit))
        /\ IF exit = 0
           THEN /\ unitfiles' = write_mount_unit(unitfiles, by_label,
                                                 MOUNTPOINT, "xfs", None)
                /\ Goto("daemon_reload")
           ELSE Finish(1, "error") /\ UNCHANGED unitfiles
    /\ UNCHANGED <<envvars, fs, loaded, enabled, wiped, lvmvars, formatted,
                   localvars, runvars>>
    /\ harness

\* systemctl daemon-reload, after the mount unit of the mountpoint.
DaemonReload ==
    /\ pc = "daemon_reload"
    /\ \E exit \in ExitCodes :
        /\ calls' = Append(calls, Call("daemon_reload", 0, "systemctl",
                                       <<"daemon-reload">>, <<>>, exit))
        /\ IF run(exit)
           THEN loaded' = unitfiles /\ Goto("enable_mount_unit")
           ELSE Finish(1, "error") /\ UNCHANGED loaded
    /\ UNCHANGED <<envvars, fs, unitfiles, enabled, wiped, lvmvars, formatted,
                   localvars, runvars>>
    /\ harness

\* An enabling of the mount unit that takes a failure to start for a warning.
EnableMountUnit_not_fatal ==
    /\ pc = "enable_mount_unit"
    /\ \E exit \in ExitCodes :
        /\ calls' = Append(calls, Call("enable_mount_unit", 0, "systemctl",
                                       <<"enable", "--now">>,
                                       <<unit_name(MOUNTPOINT)>>, exit))
        /\ enabled' = IF run(exit)
                      THEN enabled \cup {unit_name(MOUNTPOINT)}
                      ELSE enabled
        /\ Goto("label_mountpoint")
    /\ UNCHANGED <<envvars, fs, unitfiles, loaded, wiped, lvmvars, formatted,
                   localvars, runvars>>
    /\ harness

\* systemctl enable --now mountunit
EnableMountUnit ==
    /\ pc = "enable_mount_unit"
    /\ \E exit \in ExitCodes :
        /\ calls' = Append(calls, Call("enable_mount_unit", 0, "systemctl",
                                       <<"enable", "--now">>,
                                       <<unit_name(MOUNTPOINT)>>, exit))
        /\ IF run(exit)
           THEN /\ enabled' = enabled \cup {unit_name(MOUNTPOINT)}
                /\ Goto("label_mountpoint")
           ELSE Finish(1, "error") /\ UNCHANGED enabled
    /\ UNCHANGED <<envvars, fs, unitfiles, loaded, wiped, lvmvars, formatted,
                   localvars, runvars>>
    /\ harness

\* selinux::copy_context("/var", MOUNTPOINT)
LabelMountpoint ==
    /\ pc = "label_mountpoint"
    /\ \E exit \in ExitCodes :
        /\ exit = 0 => VAR \in DOMAIN fs /\ MOUNTPOINT \in DOMAIN fs
        /\ calls' = Append(calls, Call("label_mountpoint", 0, "chcon",
                                       <<"--reference=">>,
                                       <<VAR, MOUNTPOINT>>, exit))
        /\ IF run(exit)
           THEN fs' = copy_context(fs, VAR, MOUNTPOINT) /\ Goto("open_root")
           ELSE Finish(1, "error") /\ UNCHANGED fs
    /\ UNCHANGED <<envvars, unitvars, wiped, lvmvars, formatted, localvars,
                   runvars>>
    /\ harness

\* openat::Dir::open("/"), and the start of the loop over the directories.
OpenRoot ==
    /\ pc = "open_root"
    /\ \E exit \in ExitCodes :
        /\ calls' = Append(calls, Call("open_root", 0, "open", <<>>,
                                       <<ROOT>>, exit))
        /\ IF exit = 0
           THEN Goto("create_target") /\ units' = <<>> /\ i' = 1
           ELSE Finish(1, "error") /\ UNCHANGED <<units, i>>
    /\ UNCHANGED <<envvars, hostvars, platform, instance_devs, dev, runvars>>
    /\ harness

\* The directory the loop of main is at.
d == config.directories[i]
\* Its target: Path::new(MOUNTPOINT).join(name)
target_of(dir) == join(MOUNTPOINT, Unwrap(file_name(dir)))

\* d.file_name() and create_dir(&target)
CreateTarget ==
    /\ pc = "create_target"
    /\ IF ~IsSome(file_name(d))
       THEN Finish(1, "error") /\ UNCHANGED <<fs, calls>>
       ELSE \E exit \in ExitCodes :
              /\ exit = 0 => create_dir_allowed(fs, target_of(d))
              /\ calls' = Append(calls, Call("create_target", i, "create_dir",
                                             <<>>, <<target_of(d)>>, exit))
              /\ IF exit = 0
                 THEN fs' = create_dir(fs, target_of(d)) /\ Goto("copy_context")
                 ELSE Finish(1, "error") /\ UNCHANGED fs
    /\ UNCHANGED <<envvars, unitvars, wiped, lvmvars, formatted, localvars,
                   runvars>>
    /\ harness

\* A copy of the context that does not ask whether d exists.
CopyContext_always ==
    /\ pc = "copy_context"
    /\ \E exit \in ExitCodes :
          /\ exit = 0 => d \in DOMAIN fs /\ target_of(d) \in DOMAIN fs
          /\ calls' = Append(calls, Call("copy_context", i, "chcon",
                                         <<"--reference=">>,
                                         <<d, target_of(d)>>, exit))
          /\ IF run(exit)
             THEN fs' = copy_context(fs, d, target_of(d)) /\ Goto("remove_all")
             ELSE Finish(1, "error") /\ UNCHANGED fs
    /\ UNCHANGED <<envvars, unitvars, wiped, lvmvars, formatted, localvars,
                   runvars>>
    /\ harness

\* if d.exists() { selinux::copy_context(&d, &target)?; }
CopyContext ==
    /\ pc = "copy_context"
    /\ IF d \in DOMAIN fs
       THEN \E exit \in ExitCodes :
              /\ exit = 0 => target_of(d) \in DOMAIN fs
              /\ calls' = Append(calls, Call("copy_context", i, "chcon",
                                             <<"--reference=">>,
                                             <<d, target_of(d)>>, exit))
              /\ IF run(exit)
                 THEN fs' = copy_context(fs, d, target_of(d)) /\ Goto("remove_all")
                 ELSE Finish(1, "error") /\ UNCHANGED fs
       ELSE Goto("remove_all") /\ UNCHANGED <<fs, calls>>
    /\ UNCHANGED <<envvars, unitvars, wiped, lvmvars, formatted, localvars,
                   runvars>>
    /\ harness

\* root.remove_all(d)
RemoveAll ==
    /\ pc = "remove_all"
    /\ \E exit \in ExitCodes :
        /\ calls' = Append(calls, Call("remove_all", i, "remove_all", <<>>,
                                       <<d>>, exit))
        /\ IF exit = 0
           THEN fs' = remove_all(fs, d) /\ Goto("create_dir")
           ELSE Finish(1, "error") /\ UNCHANGED fs
    /\ UNCHANGED <<envvars, unitvars, wiped, lvmvars, formatted, localvars,
                   runvars>>
    /\ harness

\* std::fs::create_dir(d)
CreateDir ==
    /\ pc = "create_dir"
    /\ \E exit \in ExitCodes :
        /\ exit = 0 => create_dir_allowed(fs, d)
        /\ calls' = Append(calls, Call("create_dir", i, "create_dir", <<>>,
                                       <<d>>, exit))
        /\ IF exit = 0
           THEN fs' = create_dir(fs, d) /\ Goto("write_bind_unit")
           ELSE Finish(1, "error") /\ UNCHANGED fs
    /\ UNCHANGED <<envvars, unitvars, wiped, lvmvars, formatted, localvars,
                   runvars>>
    /\ harness

\* units.push(systemd::write_mount_unit(target, d, "none", Some("bind"))?),
\* and the end of one turn of the loop.
WriteBindUnit ==
    /\ pc = "write_bind_unit"
    /\ \E exit \in ExitCodes :
        /\ exit = 0 => UNIT_DIR \in DOMAIN fs
        /\ calls' = Append(calls, Call("write_bind_unit", i, "write_file",
                                       <<>>, <<unit_name(d)>>, exit))
        /\ IF exit = 0
           THEN /\ unitfiles' = write_mount_unit(unitfiles, target_of(d), d,
                                                 "none", Some("bind"))
                /\ units' = Append(units, unit_name(d))
                /\ IF i = Len(config.directories)
                   THEN Goto("daemon_reload_units") /\ UNCHANGED i
                   ELSE Goto("create_target") /\ i' = i + 1
           ELSE Finish(1, "error") /\ UNCHANGED <<unitfiles, units, i>>
    /\ UNCHANGED <<envvars, fs, loaded, enabled, wiped, lvmvars, formatted,
                   platform, instance_devs, dev, runvars>>
    /\ harness

\* A loop that goes on to enable the units without a reload.
DaemonReloadUnits_skipped ==
    /\ pc = "daemon_reload_units"
    /\ Goto("enable_units")
    /\ i' = 1
    /\ UNCHANGED <<envvars, hostvars, platform, instance_devs, dev, units,
                   calls, runvars>>
    /\ harness

\* systemctl daemon-reload, after the loop.
DaemonReloadUnits ==
    /\ pc = "daemon_reload_units"
    /\ \E exit \in ExitCodes :
        /\ calls' = Append(calls, Call("daemon_reload_units", 0, "systemctl",
                                       <<"daemon-reload">>, <<>>, exit))
        /\ IF run(exit)
           THEN loaded' = unitfiles /\ Goto("enable_units") /\ i' = 1
           ELSE Finish(1, "error") /\ UNCHANGED <<loaded, i>>
    /\ UNCHANGED <<envvars, fs, unitfiles, enabled, wiped, lvmvars, formatted,
                   platform, instance_devs, dev, units, runvars>>
    /\ harness

\* An enabling of the units that, when it fails, disables the units it
\* enabled.
EnableUnits_rollback ==
    /\ pc = "enable_units"
    /\ \E exit \in ExitCodes :
        /\ calls' = Append(calls, Call("enable_units", i, "systemctl",
                                       <<"enable", "--now">>, <<units[i]>>,
                                       exit))
        /\ IF run(exit)
           THEN /\ enabled' = enabled \cup {units[i]}
                /\ IF i = Len(units)
                   THEN Finish(0, "provisioned") /\ UNCHANGED i
                   ELSE Goto("enable_units") /\ i' = i + 1
           ELSE /\ Finish(1, "error")
                /\ enabled' = enabled \ {units[j] : j \in 1..Len(units)}
                /\ UNCHANGED i
    /\ UNCHANGED <<envvars, fs, unitfiles, loaded, wiped, lvmvars, formatted,
                   platform, instance_devs, dev, units, runvars>>
    /\ harness

\* An enabling of the units from the last one to the first.
EnableUnits_reversed ==
    /\ pc = "enable_units"
    /\ \E exit \in ExitCodes :
        LET unit == units[Len(units) + 1 - i]
        IN  /\ calls' = Append(calls, Call("enable_units", i, "systemctl",
                                           <<"enable", "--now">>, <<unit>>,
                                           exit))
            /\ IF run(exit)
               THEN /\ enabled' = enabled \cup {unit}
                    /\ IF i = Len(units)
                       THEN Finish(0, "provisioned") /\ UNCHANGED i
                       ELSE Goto("enable_units") /\ i' = i + 1
               ELSE Finish(1, "error") /\ UNCHANGED <<enabled, i>>
    /\ UNCHANGED <<envvars, fs, unitfiles, loaded, wiped, lvmvars, formatted,
                   platform, instance_devs, dev, units, runvars>>
    /\ harness

\* systemctl enable --now unit, for the next unit of units; Ok(()) after
\* the last.
EnableUnits ==
    /\ pc = "enable_units"
    /\ \E exit \in ExitCodes :
        /\ calls' = Append(calls, Call("enable_units", i, "systemctl",
                                       <<"enable", "--now">>, <<units[i]>>,
                                       exit))
        /\ IF run(exit)
           THEN /\ enabled' = enabled \cup {units[i]}
                /\ IF i = Len(units)
                   THEN Finish(0, "provisioned") /\ UNCHANGED i
                   ELSE Goto("enable_units") /\ i' = i + 1
           ELSE Finish(1, "error") /\ UNCHANGED <<enabled, i>>
    /\ UNCHANGED <<envvars, fs, unitfiles, loaded, wiped, lvmvars, formatted,
                   platform, instance_devs, dev, units, runvars>>
    /\ harness

\* The program is started again on the node (at a later boot) after a run
\* that exited with success.
Rerun ==
    /\ pc = "done"
    /\ status = 0
    /\ run_no < MaxRuns
    /\ pc' = "start"
    /\ platform' = <<>>
    /\ instance_devs' = <<>>
    /\ dev' = <<>>
    /\ units' = <<>>
    /\ i' = 0
    /\ status' = 0
    /\ reason' = "running"
    /\ calls' = <<>>
    /\ fs0' = fs
    /\ run_no' = run_no + 1
    /\ prev' = reason
    /\ UNCHANGED <<envvars, hostvars>>
    /\ harness

Next ==
    \/ ReadConfig
    \/ GetPlatform
    \/ ListDevices
    \/ Wipefs
    \/ SelectVolume
    \/ Pvcreate
    \/ Vgcreate
    \/ Lvcreate
    \/ Mkfs
    \/ CreateMountpoint
    \/ WriteMountUnit
    \/ DaemonReload
    \/ EnableMountUnit
    \/ LabelMountpoint
    \/ OpenRoot
    \/ CreateTarget
    \/ CopyContext
    \/ RemoveAll
    \/ CreateDir
    \/ WriteBindUnit
    \/ DaemonReloadUnits
    \/ EnableUnits
    \/ Rerun

Spec == Init /\ [][Next]_vars

\* ------------------------------------- the harness of find_flag_value
\* main does not run in the harnesses.
MainIdle ==
    /\ config = [state |-> "absent", directories |-> <<>>]
    /\ cmdline = None
    /\ blockdevices = None
    /\ fs = <<>>
    /\ unitfiles = <<>>
    /\ loaded = <<>>
    /\ enabled = {}
    /\ wiped = {}
    /\ pvs = {}
    /\ vgs = {}
    /\ lvs = {}
    /\ formatted = {}
    /\ pc = "idle"
    /\ platform = <<>>
    /\ instance_devs = <<>>
    /\ dev = <<>>
    /\ units = <<>>
    /\ i = 0
    /\ status = 0
    /\ reason = "idle"
    /\ calls = <<>>
    /\ fs0 = <<>>
    /\ run_no = 0
    /\ prev = "none"

\* The characters of the command lines find_flag_value is called with, and
\* the flag names.
FlagAlphabet == {"k", "a", "=", " ", "\t"}
FlagNames == {<<"k">>, <<"k", "a">>}

FlagInit ==
    /\ MainIdle
    /\ AzureIdle
    /\ MountIdle
    /\ \/ /\ f_flagname \in FlagNames
          /\ f_cmdline \in SeqsUpTo(FlagAlphabet, MaxCmdLen)
       \/ /\ f_flagname = CMDLINE_PLATFORM_FLAG
          /\ f_cmdline \in Cmdlines
    /\ f_result = None
    /\ f_pc = "call"

FindFlagValue ==
    /\ f_pc = "call"
    /\ f_result' = find_flag_value(f_flagname, f_cmdline)
    /\ f_pc' = "returned"
    /\ UNCHANGED <<f_flagname, f_cmdline, mainvars, azurevars, mountvars>>

SpecFlag == FlagInit /\ [][FindFlagValue]_vars

\* ---------------------------------- the harness of the Azure device filter
AzureModels ==
    { None, Some(MODEL), Some(<<" ">> \o MODEL \o <<"\n">>),
      Some(<<"V", "i", "r", "t", "u", "a", "l", "D", "i", "s", "k">>),
      Some(INSTANCE_MODEL) }
AzureLabels ==
    { None, Some(AZURE_LABEL), Some(<<"\t">> \o AZURE_LABEL \o <<" ">>),
      Some(<<"r", "o", "o", "t">>) }
AzureFstypes ==
    { None, Some(FSTYPE), Some(FSTYPE \o <<" ">>), Some(<<"x", "f", "s">>) }
AzurePartitions ==
    { Partition(l, f) : l \in AzureLabels, f \in AzureFstypes }
AzureDevices ==
    { Device(<<"s", "d", "b">>, None, m, None, None, c) :
        m \in AzureModels,
        c \in {None} \cup {Some(ps) : ps \in SeqsUpTo(AzurePartitions, MaxChildren)} }

AzureInit ==
    /\ MainIdle
    /\ FlagIdle
    /\ MountIdle
    /\ a_dev \in AzureDevices
    /\ a_result = None
    /\ a_pc = "call"

AzureSelect ==
    /\ a_pc = "call"
    /\ a_result' = azure_select(a_dev)
    /\ a_pc' = "returned"
    /\ UNCHANGED <<a_dev, mainvars, flagvars, mountvars>>

SpecAzure == AzureInit /\ [][AzureSelect]_vars

\* ------------------------------------ the harness of write_mount_unit
\* The arguments write_mount_unit is called with: those of main, and others.
MountWhats ==
    { by_label, target_of(<<"var", "lib">>),
      target_of(<<"var", "lib", "containers">>), <<"dev", "sdb">> }
MountWheres ==
    { MOUNTPOINT, <<"var", "lib">>, <<"var", "lib", "containers">>,
      <<"var", "log">>, <<"mnt">> }
MountTypes == {"xfs", "none", "ext4"}
MountOpts == {None, Some("bind"), Some("ro")}
\* The unit files there are before the call: none, or an older file for the
\* mountpoint.
MountFiles ==
    { <<>>,
      write_mount_unit(<<>>, <<"dev", "sda">>, MOUNTPOINT, "ext4", Some("ro")) }

MountInit ==
    /\ MainIdle
    /\ FlagIdle
    /\ AzureIdle
    /\ m_what \in MountWhats
    /\ m_where \in MountWheres
    /\ m_type \in MountTypes
    /\ m_opts \in MountOpts
    /\ m_files \in MountFiles
    /\ m_name = None
    /\ m_pc = "call"

WriteMountUnitCall ==
    /\ m_pc = "call"
    /\ m_files' = write_mount_unit(m_files, m_what, m_where, m_type, m_opts)
    /\ m_name' = Some(unit_name(m_where))
    /\ m_pc' = "returned"
    /\ UNCHANGED <<m_what, m_where, m_type, m_opts, mainvars, flagvars,
                   azurevars>>

SpecMount == MountInit /\ [][WriteMountUnitCall]_vars

\* ======================================================= the properties
\* What the properties say of strings and of the calls of a run, apart from
\* the operators that model the program.

Least(S) == CHOOSE x \in S : \A y \in S : x <= y
Greatest(S) == CHOOSE x \in S : \A y \in S : x >= y

\* s without its leading and trailing white space.
Stripped(s) ==
    LET black == {k \in 1..Len(s) : s[k] \notin {" ", "\t", "\n"}}
    IN  IF black = {} THEN <<>> ELSE SubSeq(s, Least(black), Greatest(black))

\* The positions in the run's record of the calls of a command.
CallsOf(cmd) == {k \in 1..Len(calls) : calls[k].cmd = cmd}
\* The positions of the lvm calls of a kind (pvcreate, vgcreate, lvcreate).
LvmCalls(kind) == {k \in CallsOf("lvm") : calls[k].flags[1] = kind}

\* The operations that change the node.
MutatingCmds ==
    {"wipefs", "lvm", "mkfs.xfs", "create_dir", "write_file", "systemctl",
     "chcon", "remove_all"}
\* The collaborators: the external tools.
ToolCmds == {"lsblk", "wipefs", "lvm", "mkfs.xfs", "systemctl", "chcon"}

\* This run listed the block devices and parsed the listing.
ListedOk ==
    /\ IsSome(blockdevices)
    /\ \E k \in CallsOf("lsblk") : calls[k].exit = 0
    /\ CallsOf("from_reader") = {}

\* The device paths the platform's selector yielded in this run.
Selection == devices(platform, Unwrap(blockdevices))

\* C1: when the platform selector yields no device path, the run goes from
\* the selection straight to a successful exit, and no operation that
\* changes the node (volume manager, format, directory creation or removal,
\* unit file, service manager, security context) is in the run's record.
C1_NoDevicesNoMutation ==
    (ListedOk /\ Selection = <<>>) =>
        /\ dispatch(platform) \in {"aws", "azure", "qemu"}
        /\ pc \in {"select_volume", "done"}
        /\ pc = "done" => status = 0 /\ reason = "no_devices"
        /\ \A k \in 1..Len(calls) : calls[k].cmd \notin MutatingCmds
        /\ fs = fs0

\* A run on Azure that listed devices, none of them matching, and exited.
C1_Witness ==
    /\ ListedOk
    /\ Selection = <<>>
    /\ Len(Unwrap(blockdevices)) >= 1
    /\ dispatch(platform) = "azure"
    /\ pc = "done"
    /\ status = 0

\* C2: when exactly one device path is selected, the run makes no
\* volume-manager call, every format is of exactly that path, which is
\* /dev/<name> of a listed device, and a run that got past the format has
\* formatted once.
C2_SingleDevicePassThrough ==
    (ListedOk /\ Len(Selection) = 1) =>
        /\ CallsOf("lvm") = {}
        /\ \E j \in 1..Len(Unwrap(blockdevices)) :
             Selection[1] = <<"/", "d", "e", "v", "/">>
                            \o Unwrap(blockdevices)[j].name
        /\ \A k \in CallsOf("mkfs.xfs") : calls[k].targets = <<Selection[1]>>
        /\ pc = "mkfs" => dev = Selection[1]
        /\ (\E k \in 1..Len(calls) : calls[k].step = "create_mountpoint")
             => Cardinality(CallsOf("mkfs.xfs")) = 1

\* A run with one selected device that formatted it.
C2_Witness ==
    /\ ListedOk
    /\ Len(Selection) = 1
    /\ \E k \in CallsOf("mkfs.xfs") :
         calls[k].exit = 0 /\ calls[k].targets = <<Selection[1]>>

\* The path of the striped volume of main: the names with every '-'
\* doubled.
StripedVolumePath ==
    <<"/", "d", "e", "v", "/", "m", "a", "p", "p", "e", "r", "/",
      "c", "o", "r", "e", "o", "s", "-", "-", "i", "n", "s", "t", "a", "n",
      "c", "e", "-", "-", "v", "g", "-", "s", "t", "r", "i", "p", "e", "d">>

\* C3: with N >= 2 selected devices, the physical-volume initializations
\* are of the selected devices, one each, in order; a volume-group creation
\* comes only after all N of them succeeded, is the only one, and names all
\* N paths; a logical-volume creation comes only after it, is the only one,
\* and is striped; and when it succeeded the device to format is
\* /dev/mapper/coreos--instance--vg-striped.
C3_StripedVolume ==
    (ListedOk /\ Len(Selection) >= 2) =>
        LET N == Len(Selection)
            pv == LvmCalls("pvcreate")
            vg == LvmCalls("vgcreate")
            lv == LvmCalls("lvcreate")
        IN  /\ \A k \in pv :
                 /\ calls[k].idx \in 1..N
                 /\ calls[k].targets = <<Selection[calls[k].idx]>>
                 /\ \A k2 \in pv : k2 < k => calls[k2].idx < calls[k].idx
            /\ Cardinality(pv) <= N
            /\ \A v \in vg :
                 /\ vg = {v}
                 /\ Cardinality(pv) = N
                 /\ \A k \in pv : k < v /\ calls[k].exit = 0
                 /\ calls[v].targets = <<VGNAME>> \o Selection
            /\ \A l \in lv :
                 /\ lv = {l}
                 /\ \E v \in vg : v < l /\ calls[v].exit = 0
                 /\ \E f \in 1..Len(calls[l].flags) :
                      calls[l].flags[f] = "striped"
                 /\ calls[l].targets = <<VGNAME, LVNAME>>
            /\ (\E l \in lv : calls[l].exit = 0) =>
                 /\ dev = StripedVolumePath
                 /\ \A k \in CallsOf("mkfs.xfs") :
                      calls[k].targets = <<StripedVolumePath>>
            /\ (pc = "mkfs" \/ CallsOf("mkfs.xfs") # {}) =>
                 \E l \in lv : calls[l].exit = 0

\* A run that built the striped volume from at least two devices and is
\* about to format it.
C3_Witness ==
    /\ ListedOk
    /\ Len(Selection) >= 2
    /\ pc = "mkfs"
    /\ Cardinality(LvmCalls("pvcreate")) = Len(Selection)
    /\ \E l \in LvmCalls("lvcreate") : calls[l].exit = 0

\* The tokens of s between single spaces, as pairs <<first, last>> of
\* positions (last = first - 1 for an empty token).
Tokens(s) ==
    { t \in (1..(Len(s) + 1)) \X (0..Len(s)) :
        /\ t[1] <= t[2] + 1
        /\ t[1] = 1 \/ s[t[1] - 1] = " "
        /\ t[2] = Len(s) \/ s[t[2] + 1] = " "
        /\ \A k \in t[1]..t[2] : s[k] # " " }

\* The tokens of s of the form flag=value, the key being what is before
\* the token's first '='.
FlagTokens(flag, s) ==
    { t \in Tokens(s) :
        /\ t[1] + Len(flag) <= t[2]
        /\ SubSeq(s, t[1], t[1] + Len(flag) - 1) = flag
        /\ s[t[1] + Len(flag)] = "="
        /\ \A k \in 1..Len(flag) : flag[k] # "=" }

\* The value of such a token, stripped.
FlagValue(flag, s, t) == Stripped(SubSeq(s, t[1] + Len(flag) + 1, t[2]))

\* The first token of a set of tokens.
FirstToken(T) == CHOOSE t \in T : \A u \in T : t[1] <= u[1]

\* The command line of the specification's example.
ExampleCmdline ==
    <<"B", "O", "O", "T", "_", "I", "M", "A", "G", "E", "=", "/", "x", " ",
      "i", "g", "n", "i", "t", "i", "o", "n", ".", "p", "l", "a", "t", "f",
      "o", "r", "m", ".", "i", "d", "=", "a", "w", "s", " ",
      "c", "o", "n", "s", "o", "l", "e", "=", "t", "t", "y", "S", "0">>

\* C4, as stated: detection returns the stripped value of the first
\* flag=value token, and fails when there is no such token or when the
\* value of that first token is empty once stripped.
C4_FirstTokenDecides ==
    f_pc = "returned" =>
        LET T == FlagTokens(f_flagname, f_cmdline)
        IN  IF T = {}
            THEN f_result = None
            ELSE IF FlagValue(f_flagname, f_cmdline, FirstToken(T)) = <<>>
                 THEN f_result = None
                 ELSE f_result =
                        Some(FlagValue(f_flagname, f_cmdline, FirstToken(T)))

\* C4, amended: detection returns the stripped value of the first
\* flag=value token (tokens being separated by single spaces) whose value
\* is not empty once stripped, and fails when there is no such token; it
\* returns "aws" for the example.
C4_FirstNonEmptyTokenDecides ==
    f_pc = "returned" =>
        LET T == { t \in FlagTokens(f_flagname, f_cmdline) :
                     FlagValue(f_flagname, f_cmdline, t) # <<>> }
        IN  /\ IF T = {}
               THEN f_result = None
               ELSE f_result =
                      Some(FlagValue(f_flagname, f_cmdline, FirstToken(T)))
            /\ (f_cmdline = ExampleCmdline /\ f_flagname = CMDLINE_PLATFORM_FLAG)
                 => f_result = Some(<<"a", "w", "s">>)

\* A command line whose first flag token has an empty value and whose
\* second has one: detection returned the second.
C4_Witness ==
    /\ f_pc = "returned"
    /\ f_flagname = <<"k">>
    /\ f_cmdline = <<"k", "=", " ", "k", "=", "a">>
    /\ f_result = Some(<<"a">>)

\* C5: when the detected platform is none of aws, azure and qemu, the run
\* has ended with success, having neither listed the block devices nor
\* done any operation that changes the node.
C5_UnhandledPlatformExits ==
    (platform # <<>> /\ platform \notin {STR_aws, STR_azure, STR_qemu}) =>
        /\ pc = "done"
        /\ status = 0
        /\ reason = "unhandled"
        /\ CallsOf("lsblk") = {}
        /\ \A k \in 1..Len(calls) : calls[k].cmd \notin MutatingCmds
        /\ fs = fs0
        /\ blockdevices = None

\* A run on a node whose platform is "metal", ended.
C5_Witness ==
    /\ platform = <<"m", "e", "t", "a", "l">>
    /\ pc = "done"
    /\ status = 0
    /\ Len(calls) = 1

\* C6: with no configuration file the run only ends with success, and with
\* an empty directory list it only ends with failure; in both it reads no
\* boot parameters, calls no collaborator and changes nothing.
C6_ConfigAbsentOrEmpty ==
    LET untouched ==
            /\ pc \in {"start", "done"}
            /\ calls = <<>>
            /\ cmdline = None
            /\ platform = <<>>
            /\ fs = fs0
            /\ unitfiles = <<>>
            /\ enabled = {}
            /\ formatted = {}
    IN  /\ config.state = "absent" =>
             untouched /\ (pc = "done" => status = 0)
        /\ (config.state = "present" /\ config.directories = <<>>) =>
             untouched /\ (pc = "done" => status # 0)

\* A run that failed on an empty directory list.
C6_Witness ==
    /\ config.state = "present"
    /\ config.directories = <<>>
    /\ pc = "done"
    /\ status = 1

\* C7: the Azure filter selects a device exactly when its stripped model
\* is "Virtual Disk" and it has exactly one child, with a label that is
\* "Temporary Storage" and a filesystem type that is "ntfs" once stripped;
\* it then yields /dev/<name>, and otherwise nothing.
C7_AzureSelection ==
    a_pc = "returned" =>
        LET kids == a_dev.children
            match ==
                /\ a_dev.model # None
                /\ Stripped(a_dev.model[1]) = MODEL
                /\ kids # None
                /\ Len(kids[1]) = 1
                /\ kids[1][1].label # None
                /\ Stripped(kids[1][1].label[1]) = AZURE_LABEL
                /\ kids[1][1].fstype # None
                /\ Stripped(kids[1][1].fstype[1]) = FSTYPE
        IN  a_result = IF match
                       THEN Some(<<"/", "d", "e", "v", "/">> \o a_dev.name)
                       ELSE None

\* A device selected although its model, label and filesystem type carry
\* white space around them.
C7_Witness ==
    /\ a_pc = "returned"
    /\ a_result # None
    /\ a_dev.model # Some(MODEL)
    /\ a_dev.children[1][1].label # Some(AZURE_LABEL)
    /\ a_dev.children[1][1].fstype # Some(FSTYPE)

\* The run provisioned the storage and exited with success.
Provisioned == pc = "done" /\ status = 0 /\ reason = "provisioned"

\* The paths strictly under a directory, in a filesystem.
Under(f, dir) == {q \in DOMAIN f : q # dir /\ IsPrefix(dir, q)}

\* What C8 says of one configured directory after the run: it is an empty
\* directory, its bind-mount unit (what = <mountpoint>/basename, where =
\* the directory) is written and enabled, and nothing it held before the
\* run exists any more, neither in place nor under its target.
Redirected(dir) ==
    LET target == <<"var", "mnt", "instance-storage", dir[Len(dir)]>>
        name == unit_name(dir)
    IN  /\ dir \in DOMAIN fs
        /\ Under(fs, dir) = {}
        /\ name \in DOMAIN unitfiles
        /\ unitfiles[name].What = target
        /\ unitfiles[name].Where = dir
        /\ unitfiles[name].Type = "none"
        /\ unitfiles[name].Options = Some("bind")
        /\ name \in enabled
        /\ \A q \in Under(fs0, dir) : q \notin DOMAIN fs
        /\ target \in DOMAIN fs
        /\ Under(fs, target) = {}

\* The configured directories, and those nested with another entry of the
\* list (above it or below it).
Configured == {config.directories[k] : k \in 1..Len(config.directories)}
NestedWithAnother(dir) ==
    \E k \in 1..Len(config.directories) :
        /\ config.directories[k] # dir
        /\ \/ IsPrefix(config.directories[k], dir)
           \/ IsPrefix(dir, config.directories[k])

\* C8, as stated: after a run that provisioned, every configured directory
\* is redirected, whatever the list.
C8_EveryDirectoryRedirected ==
    Provisioned => \A dir \in Configured : Redirected(dir)

\* C8, amended: after a run that provisioned, every configured directory
\* that is neither above nor below another configured directory is
\* redirected.
C8_UnnestedDirectoriesRedirected ==
    Provisioned =>
        \A dir \in Configured : ~NestedWithAnother(dir) => Redirected(dir)

\* A run that provisioned, redirecting a directory that held something.
C8_Witness ==
    /\ Provisioned
    /\ \E dir \in Configured :
         /\ ~NestedWithAnother(dir)
         /\ Under(fs0, dir) # {}
         /\ Redirected(dir)

\* A later run on a node that an earlier run provisioned.
SecondRun == run_no >= 2 /\ prev = "provisioned"

\* Every tool this run called exited with success, and the boot parameters
\* were read.
ToolsSucceeded ==
    \A k \in 1..Len(calls) :
        calls[k].cmd \in ToolCmds \cup {"read", "from_reader"}
            => calls[k].exit = 0

\* C9, as stated: the second run fails at the creation of the target
\* directory of an already-migrated directory.
C9_FailsAtTarget ==
    (SecondRun /\ pc = "done" /\ ToolsSucceeded) =>
        /\ status # 0
        /\ calls # <<>>
        /\ calls[Len(calls)].step = "create_target"
        /\ calls[Len(calls)].exit # 0

\* C9, amended: the second run is not a no-op and cannot succeed: it
\* selects the devices and formats again, and fails no later than at the
\* creation of the mountpoint, which is already there; it never gets to
\* the creation of a target directory.
C9_FailsAtMountpoint ==
    SecondRun =>
        /\ pc \in {"start", "get_platform", "list", "wipefs", "select_volume",
                   "pvcreate", "vgcreate", "lvcreate", "mkfs",
                   "create_mountpoint", "done"}
        /\ MOUNTPOINT \in DOMAIN fs
        /\ \A k \in 1..Len(calls) :
             /\ calls[k].step # "create_target"
             /\ calls[k].step = "create_mountpoint" => calls[k].exit # 0
        /\ pc = "done" =>
             /\ status # 0
             /\ calls # <<>>
             /\ ToolsSucceeded =>
                  /\ calls[Len(calls)].step = "create_mountpoint"
                  /\ CallsOf("mkfs.xfs") # {}

\* A second run that formatted again and failed at the mountpoint.
C9_Witness ==
    /\ SecondRun
    /\ pc = "done"
    /\ status = 1
    /\ \E k \in CallsOf("mkfs.xfs") : calls[k].exit = 0
    /\ calls[Len(calls)].step = "create_mountpoint"

\* C10: a call or operation that failed is the last of its run, and the
\* run has then ended with a non-zero exit; a run that ended with a
\* non-zero exit does nothing more; and no call of a tool is repeated in a
\* step with the same arguments.
C10_AbortNoRetry ==
    /\ [](\A k \in 1..Len(calls) :
            calls[k].exit # 0 =>
                k = Len(calls) /\ pc = "done" /\ status # 0)
    /\ [](\A k1, k2 \in 1..Len(calls) :
            (/\ k1 < k2
             /\ calls[k1].cmd \in ToolCmds
             /\ calls[k1].step = calls[k2].step
             /\ calls[k1].cmd = calls[k2].cmd
             /\ calls[k1].flags = calls[k2].flags)
                => calls[k1].targets # calls[k2].targets)
    /\ [][(pc = "done" /\ status # 0) => UNCHANGED <<hostvars, calls, pc>>]_vars

\* A run that failed after it had changed the node: the physical volumes
\* are initialized, the volume group is not.
C10_Witness ==
    /\ pc = "done"
    /\ status = 1
    /\ pvs # {}
    /\ vgs = {}
    /\ calls[Len(calls)].exit = 1
    /\ calls[Len(calls)].step = "vgcreate"

\* The positions in the run's record of the steps of a name, and of those
\* that succeeded.
StepsOf(step) == {k \in 1..Len(calls) : calls[k].step = step}
OkStepsOf(step) == {k \in StepsOf(step) : calls[k].exit = 0}
\* The enablings and the reloads among the calls of the service manager.
EnableCalls == {k \in CallsOf("systemctl") : calls[k].flags[1] = "enable"}
ReloadCalls ==
    {k \in CallsOf("systemctl") : calls[k].flags[1] = "daemon-reload"}
\* The writes of the file of a unit that succeeded.
WritesOf(u) ==
    {k \in CallsOf("write_file") : calls[k].targets = <<u>> /\ calls[k].exit = 0}

\* C11: every enabling of a unit comes after a write of that unit's file in
\* this run and after a successful reload that is later than every write of
\* that file; the most recent reload before the enabling succeeded and is
\* later than those writes; and what the service manager has loaded of an
\* enabled unit is the text of its file.
C11_ReloadBeforeEnable ==
    /\ \A k \in EnableCalls :
         LET u == calls[k].targets[1]
             written == {w \in WritesOf(u) : w < k}
             reloads == {r \in ReloadCalls : r < k}
         IN  /\ written # {}
             /\ reloads # {}
             /\ calls[Greatest(reloads)].exit = 0
             /\ \A w \in written : w < Greatest(reloads)
    /\ \A u \in enabled :
         /\ u \in DOMAIN unitfiles
         /\ u \in DOMAIN loaded
         /\ loaded[u] = unitfiles[u]

\* A run that enabled the mount unit of the mountpoint and two bind-mount
\* units.
C11_Witness ==
    /\ Provisioned
    /\ Len(units) = 2
    /\ Cardinality(EnableCalls) = 3
    /\ Cardinality(enabled) = 3

\* The steps that make the root filesystem ready, in the order of main.
ReadySteps ==
    <<"mkfs", "create_mountpoint", "write_mount_unit", "daemon_reload",
      "enable_mount_unit", "label_mountpoint">>

\* C12: a creation of a target directory and a removal of a configured
\* directory come only after the format, the creation of the mountpoint, the
\* write of its mount unit, the reload, the enabling of that unit and the
\* copy of the security context of /var onto the mountpoint, each of which
\* succeeded, in that order; the mountpoint then exists with the context of
\* /var, its unit is enabled and a device is formatted.
C12_RootReadyBeforeMigration ==
    \A k \in StepsOf("create_target") \cup CallsOf("remove_all") :
        /\ \A n \in 1..Len(ReadySteps) :
             /\ Cardinality(StepsOf(ReadySteps[n])) = 1
             /\ \A r \in StepsOf(ReadySteps[n]) : r < k /\ calls[r].exit = 0
        /\ \A n \in 1..(Len(ReadySteps) - 1) :
             \A r1 \in StepsOf(ReadySteps[n]), r2 \in StepsOf(ReadySteps[n + 1]) :
                r1 < r2
        /\ \A r \in StepsOf("label_mountpoint") :
             calls[r].cmd = "chcon" /\ calls[r].targets = <<VAR, MOUNTPOINT>>
        /\ \A r \in StepsOf("mkfs") : calls[r].cmd = "mkfs.xfs"
        /\ MOUNTPOINT \in DOMAIN fs
        /\ fs[MOUNTPOINT] = fs[VAR]
        /\ unit_name(MOUNTPOINT) \in enabled
        /\ formatted # {}

\* A run that removed a configured directory.
C12_Witness ==
    /\ \E k \in CallsOf("remove_all") : calls[k].exit = 0
    /\ pc = "create_dir"

\* The enablings of the bind-mount units, and the writes of their files
\* that succeeded.
BindEnables == {k \in EnableCalls : calls[k].step = "enable_units"}
BindWrites == OkStepsOf("write_bind_unit")
\* The position of k in a set of positions, counted from 1.
RankIn(S, k) == Cardinality({j \in S : j <= k})

\* C13: a bind-mount unit is enabled only when the unit of every configured
\* directory has been written, after exactly one reload that follows the
\* last of those writes; the n-th enabling is of the unit of the n-th
\* configured directory, so no unit is enabled twice; and a run that
\* provisioned has enabled every one of them.
C13_BatchedActivation ==
    /\ \A k \in BindEnables :
         /\ Cardinality(BindWrites) = Len(config.directories)
         /\ \A w \in BindWrites : w < k
         /\ Cardinality({r \in ReloadCalls : r > Greatest(BindWrites)}) = 1
         /\ \A r \in ReloadCalls :
              r > Greatest(BindWrites) => r < k /\ calls[r].exit = 0
         /\ LET n == RankIn(BindEnables, k)
            IN  /\ n <= Len(config.directories)
                /\ calls[k].targets = <<unit_name(config.directories[n])>>
                /\ \E w \in BindWrites :
                     /\ RankIn(BindWrites, w) = n
                     /\ calls[w].targets = calls[k].targets
    /\ (BindWrites # {}) =>
         Cardinality({r \in ReloadCalls : r > Greatest(BindWrites)}) <= 1
    /\ Provisioned =>
         /\ Cardinality(BindEnables) = Len(config.directories)
         /\ \A k \in BindEnables : calls[k].exit = 0

\* A run that enabled the second of two bind-mount units.
C13_Witness ==
    /\ Len(config.directories) = 2
    /\ Cardinality(BindEnables) = 2
    /\ pc = "done"
    /\ status = 0


\* The steps of one turn of the loop over the directories, in the order of
\* main, and the place of a step among them (0 for a step outside the loop).
LoopSteps ==
    <<"create_target", "copy_context", "remove_all", "create_dir",
      "write_bind_unit">>
LoopRank(step) ==
    IF \E n \in 1..Len(LoopSteps) : LoopSteps[n] = step
    THEN CHOOSE n \in 1..Len(LoopSteps) : LoopSteps[n] = step
    ELSE 0
LoopCalls == {k \in 1..Len(calls) : LoopRank(calls[k].step) > 0}
\* The target of a configured directory: <mountpoint>/basename.
TargetOf(dir) == <<"var", "mnt", "instance-storage", dir[Len(dir)]>>

\* C14: the operations on the configured directories are, directory by
\* directory in configured order, the creation of the target
\* <mountpoint>/basename, the copy of the directory's context onto the
\* target, the removal of the directory, its creation and the write of its
\* bind-mount unit, none of them twice and none without the one before
\* (the copy apart); the copy is made exactly when the directory exists
\* when the target has been created, so never after the removal; and the
\* context is copied once onto the mountpoint and at most once per
\* directory.
C14_DirectoryStepOrder ==
    /\ \A k \in LoopCalls :
         LET j == calls[k].idx
             n == LoopRank(calls[k].step)
             dir == config.directories[j]
         IN  /\ j \in 1..Len(config.directories)
             /\ calls[k].targets =
                  (CASE n = 1 -> <<TargetOf(dir)>>
                     [] n = 2 -> <<dir, TargetOf(dir)>>
                     [] n = 3 -> <<dir>>
                     [] n = 4 -> <<dir>>
                     [] n = 5 -> <<unit_name(dir)>>)
             /\ calls[k].cmd =
                  (CASE n = 1 -> "create_dir"
                     [] n = 2 -> "chcon"
                     [] n = 3 -> "remove_all"
                     [] n = 4 -> "create_dir"
                     [] n = 5 -> "write_file")
             /\ \A k2 \in LoopCalls :
                  k2 < k =>
                    \/ calls[k2].idx < j
                    \/ calls[k2].idx = j /\ LoopRank(calls[k2].step) < n
             /\ n = 1 /\ j > 1 =>
                  \E k2 \in OkStepsOf("write_bind_unit") : calls[k2].idx = j - 1
             /\ n \in {2, 3} =>
                  \E k2 \in OkStepsOf("create_target") : calls[k2].idx = j
             /\ n \in {4, 5} =>
                  \E k2 \in OkStepsOf(LoopSteps[n - 1]) : calls[k2].idx = j
             /\ (n = 2 /\ ~\E k2 \in StepsOf("remove_all") : calls[k2].idx = j)
                  => dir \in DOMAIN fs
    /\ pc = "remove_all" =>
         ((\E k \in StepsOf("copy_context") : calls[k].idx = i)
            <=> config.directories[i] \in DOMAIN fs)
    /\ Cardinality(StepsOf("label_mountpoint")) <= 1
    /\ LoopCalls # {} => Cardinality(OkStepsOf("label_mountpoint")) = 1
    /\ CallsOf("chcon") = StepsOf("label_mountpoint") \cup StepsOf("copy_context")
    /\ Cardinality(StepsOf("copy_context")) <= Len(config.directories)

\* A run that provisioned two directories, one that existed, whose context
\* it copied, and one that did not.
C14_Witness ==
    /\ Provisioned
    /\ Len(config.directories) = 2
    /\ Cardinality(StepsOf("copy_context")) = 1
    /\ Cardinality(CallsOf("remove_all")) = 2

\* The run got to the loop over the directories, and the run failed.
ReachedLoop == OkStepsOf("open_root") # {}
Failed == pc = "done" /\ status # 0
\* The configured directories whose turn of the loop was completed.
Processed ==
    {j \in 1..Len(config.directories) :
        \E k \in OkStepsOf("write_bind_unit") : calls[k].idx = j}

\* What C15 says of a run that failed in or after the loop, of the
\* directories in the set Which.
NoRollback(Which) ==
    (ReachedLoop /\ Failed) =>
        /\ \E k \in OkStepsOf("mkfs") :
             [dev |-> calls[k].targets[1], label |-> "ccisp-store"] \in formatted
        /\ MOUNTPOINT \in DOMAIN fs
        /\ unit_name(MOUNTPOINT) \in DOMAIN unitfiles
        /\ unitfiles[unit_name(MOUNTPOINT)].Where = MOUNTPOINT
        /\ unitfiles[unit_name(MOUNTPOINT)].Type = "xfs"
        /\ unit_name(MOUNTPOINT) \in enabled
        /\ \A j \in Processed :
             LET dir == config.directories[j]
             IN  /\ unit_name(dir) \in DOMAIN unitfiles
                 /\ unitfiles[unit_name(dir)].Where = dir
                 /\ unitfiles[unit_name(dir)].What = TargetOf(dir)
                 /\ dir \in Which =>
                      /\ dir \in DOMAIN fs
                      /\ Under(fs, dir) = {}
                      /\ \A q \in Under(fs0, dir) : q \notin DOMAIN fs
        /\ BindEnables = {} =>
             /\ calls # <<>>
             /\ LoopRank(calls[Len(calls)].step) > 0
                  \/ calls[Len(calls)].step \in {"open_root", "daemon_reload_units"}
             /\ \A j \in 1..Len(config.directories) :
                  unit_name(config.directories[j]) \notin enabled
        /\ BindEnables # {} =>
             /\ Processed = 1..Len(config.directories)
             /\ \A j \in 1..Len(config.directories) :
                  /\ j < Cardinality(BindEnables) =>
                       unit_name(config.directories[j]) \in enabled
                  /\ j > Cardinality(BindEnables) =>
                       unit_name(config.directories[j]) \notin enabled

\* C15, as stated: after a failure in the loop, at the final reload or at
\* an enabling, every directory processed before is empty, whatever the
\* list.
C15_EveryProcessedDirectoryEmpty == NoRollback(Configured)

\* C15, amended: after a failure in the loop, at the final reload or at an
\* enabling, the format, the mountpoint and its enabled unit are as they
\* were made; every directory processed before has its bind-mount unit
\* written, and is empty when it is neither above nor below another
\* configured directory; no bind-mount unit is enabled after a failure in
\* the loop or at the reload; and after a failure at the j-th enabling the
\* units before the j-th are enabled and the ones after it are not.
C15_NoRollback ==
    NoRollback({dir \in Configured : ~NestedWithAnother(dir)})

\* A run that failed at the enabling of the second bind-mount unit.
C15_Witness ==
    /\ ReachedLoop
    /\ Failed
    /\ Cardinality(BindEnables) = 2
    /\ unit_name(config.directories[1]) \in enabled
    /\ unit_name(config.directories[2]) \notin enabled
    /\ Under(fs0, config.directories[1]) # {}

\* C16: with two or more selected devices a volume-manager call that fails
\* is the last operation of the run, which ends with a non-zero exit; the
\* physical volumes initialized before it stay initialized; after a failed
\* pvcreate on the i-th device no later device is initialized and no volume
\* group is created, after a failed vgcreate no logical volume is created;
\* and the run formats nothing, creates and removes no directory.
C16_VolumeFailureFatal ==
    (ListedOk /\ Len(Selection) >= 2) =>
        \A k \in CallsOf("lvm") :
            calls[k].exit # 0 =>
                /\ k = Len(calls)
                /\ Failed
                /\ \A p \in LvmCalls("pvcreate") :
                     p < k => calls[p].exit = 0 /\ calls[p].targets[1] \in pvs
                /\ calls[k].flags[1] = "pvcreate" =>
                     /\ \A p \in LvmCalls("pvcreate") : calls[p].idx <= calls[k].idx
                     /\ LvmCalls("vgcreate") = {}
                     /\ LvmCalls("lvcreate") = {}
                     /\ run_no = 1 =>
                          /\ vgs = {}
                          /\ \A j \in (calls[k].idx)..Len(Selection) :
                               Selection[j] \notin pvs
                /\ calls[k].flags[1] = "vgcreate" =>
                     /\ LvmCalls("lvcreate") = {}
                     /\ run_no = 1 => vgs = {} /\ lvs = {}
                /\ calls[k].flags[1] = "lvcreate" => (run_no = 1 => lvs = {})
                /\ CallsOf("mkfs.xfs") = {}
                /\ CallsOf("create_dir") = {}
                /\ CallsOf("remove_all") = {}
                /\ CallsOf("write_file") = {}
                /\ fs = fs0
                /\ run_no = 1 => formatted = {}

\* A run that initialized the first of two devices and failed at the
\* second.
C16_Witness ==
    /\ ListedOk
    /\ Len(Selection) = 2
    /\ Failed
    /\ calls[Len(calls)].step = "pvcreate"
    /\ calls[Len(calls)].idx = 2
    /\ Selection[1] \in pvs
    /\ Selection[2] \notin pvs

\* A listed device matches on Azure: its stripped model is "Virtual Disk"
\* and its only child is the ntfs "Temporary Storage".
AzureMatches(dv) ==
    /\ dv.model # None
    /\ Stripped(dv.model[1]) = MODEL
    /\ dv.children # None
    /\ Len(dv.children[1]) = 1
    /\ dv.children[1][1].label # None
    /\ Stripped(dv.children[1][1].label[1]) = AZURE_LABEL
    /\ dv.children[1][1].fstype # None
    /\ Stripped(dv.children[1][1].fstype[1]) = FSTYPE

\* C17: on Azure the wipes are of the selected devices, in order, each at
\* most once and each after the wipes before it succeeded; a device that
\* does not match is never wiped; a wipe that succeeded stays done and one
\* that failed is the last operation of a run that ends with a non-zero
\* exit; and in a run that got to the volume assembly or to the format
\* every selected device has been wiped exactly once, before every
\* volume-manager call and before the format.  On the other platforms
\* nothing is wiped.
C17_AzureWipes ==
    /\ dispatch(platform) # "azure" => CallsOf("wipefs") = {}
    /\ (dispatch(platform) = "azure" /\ ListedOk) =>
         LET W == CallsOf("wipefs")
             listed == Unwrap(blockdevices)
             later == CallsOf("lvm") \cup CallsOf("mkfs.xfs")
         IN  /\ \A k \in W :
                  /\ calls[k].idx \in 1..Len(Selection)
                  /\ calls[k].targets = <<Selection[calls[k].idx]>>
                  /\ calls[k].flags = <<"-a">>
                  /\ \A k2 \in W :
                       k2 < k => calls[k2].idx < calls[k].idx /\ calls[k2].exit = 0
                  /\ calls[k].exit = 0 => calls[k].targets[1] \in wiped
                  /\ calls[k].exit # 0 => k = Len(calls) /\ Failed
             /\ \A j \in 1..Len(listed) :
                  ~AzureMatches(listed[j]) =>
                    /\ <<"/", "d", "e", "v", "/">> \o listed[j].name \notin wiped
                    /\ \A k \in W :
                         calls[k].targets[1] # <<"/", "d", "e", "v", "/">> \o listed[j].name
             /\ \A j \in 1..Len(listed) :
                  (AzureMatches(listed[j]) /\ (later # {} \/ pc \in {"pvcreate", "mkfs"})) =>
                    /\ Cardinality({k \in W :
                          calls[k].targets[1] = <<"/", "d", "e", "v", "/">> \o listed[j].name}) = 1
                    /\ <<"/", "d", "e", "v", "/">> \o listed[j].name \in wiped
             /\ \A k \in W, l \in later : k < l

\* A run on Azure that wiped two devices and went on to the volume
\* assembly.
C17_Witness ==
    /\ dispatch(platform) = "azure"
    /\ ListedOk
    /\ Cardinality(CallsOf("wipefs")) = 2
    /\ LvmCalls("pvcreate") # {}


\* The tokens of s between white space of any kind, as pairs <<first,
\* last>> of positions; none is empty.
WsTokens(s) ==
    { t \in (1..Len(s)) \X (1..Len(s)) :
        /\ t[1] <= t[2]
        /\ t[1] = 1 \/ s[t[1] - 1] \in {" ", "\t", "\n"}
        /\ t[2] = Len(s) \/ s[t[2] + 1] \in {" ", "\t", "\n"}
        /\ \A k \in t[1]..t[2] : s[k] \notin {" ", "\t", "\n"} }
\* Those of the form flag=value with exactly one '='.
WsFlagTokens(flag, s) ==
    { t \in WsTokens(s) :
        /\ Cardinality({k \in t[1]..t[2] : s[k] = "="}) = 1
        /\ t[1] + Len(flag) <= t[2]
        /\ SubSeq(s, t[1], t[1] + Len(flag) - 1) = flag
        /\ s[t[1] + Len(flag)] = "=" }

\* C18, as stated: the platform value is supplied by the first token,
\* between white space of any kind, that has exactly one '=', the flag
\* before it and a value after it; without such a token detection fails.
C18_WhitespaceSingleEquals ==
    f_pc = "returned" =>
        LET T == { t \in WsFlagTokens(f_flagname, f_cmdline) :
                     t[1] + Len(f_flagname) < t[2] }
        IN  IF T = {}
            THEN f_result = None
            ELSE f_result =
                   Some(SubSeq(f_cmdline,
                               FirstToken(T)[1] + Len(f_flagname) + 1,
                               FirstToken(T)[2]))

\* C18, amended: detection splits the text at single spaces only; the value
\* it returns is, stripped, what follows the first '=' of a token whose
\* text before that '=' is the flag, further '=' included; a token without
\* '=' supplies nothing; and detection succeeds whenever some such token
\* has a value that is not empty once stripped.  Tabs and newlines do not
\* separate tokens.
C18_SpaceTokensFirstEquals ==
    f_pc = "returned" =>
        /\ f_result # None =>
             \E t \in FlagTokens(f_flagname, f_cmdline) :
                 /\ FlagValue(f_flagname, f_cmdline, t) = f_result[1]
                 /\ \A k \in t[1]..t[2] : f_cmdline[k] # " "
        /\ (\E t \in FlagTokens(f_flagname, f_cmdline) :
                FlagValue(f_flagname, f_cmdline, t) # <<>>)
             => f_result # None
        /\ (\A t \in Tokens(f_cmdline) :
                \A k \in t[1]..t[2] : f_cmdline[k] # "=")
             => f_result = None

\* A token with two '=': detection returned what follows the first.
C18_Witness ==
    /\ f_pc = "returned"
    /\ f_flagname = <<"k">>
    /\ f_cmdline = <<"k", "=", "a", "=", "a">>
    /\ f_result = Some(<<"a", "=", "a">>)


\* The name of the unit of a path: its components with '-' between them,
\* and ".mount".
EscapedName(where) ==
    [k \in 1..(2 * Len(where)) |->
        IF k = 2 * Len(where)
        THEN ".mount"
        ELSE IF k % 2 = 1 THEN where[(k + 1) \div 2] ELSE "-"]

\* The call was for a bind mount: type "none" with the option "bind".
BindCall == m_type = "none" /\ m_opts = <<"bind">>

\* What C19 says of the unit written, apart from the dependency on what.
UnitWritten(text) ==
    /\ m_name = <<EscapedName(m_where)>>
    /\ m_name[1] \in DOMAIN m_files
    /\ text.Before = "local-fs.target"
    /\ text.WantedBy = "local-fs.target"
    /\ text.What = m_what
    /\ text.Where = m_where
    /\ text.Type = m_type
    /\ text.Options = m_opts
    /\ (text.Options # <<>>) <=> (m_opts # <<>>)

\* C19, as stated: the unit written is ordered before local-fs.target, has
\* an Options line exactly when options were given, has a name made from
\* where alone, and declares RequiresMountsFor on what exactly when the
\* mount is not a bind mount.
C19_RequiresOnlyForNonBind ==
    m_pc = "returned" =>
        LET text == m_files[unit_name(m_where)]
        IN  /\ UnitWritten(text)
            /\ ("RequiresMountsFor" \in DOMAIN text) <=> ~BindCall
            /\ ~BindCall => text.RequiresMountsFor = m_what

\* C19, amended: the unit written is ordered before local-fs.target, has
\* an Options line exactly when options were given, has a name made from
\* where alone, and declares RequiresMountsFor on what for every mount, a
\* bind mount included.
C19_RequiresForEveryMount ==
    m_pc = "returned" =>
        LET text == m_files[unit_name(m_where)]
        IN  /\ UnitWritten(text)
            /\ "RequiresMountsFor" \in DOMAIN text
            /\ text.RequiresMountsFor = m_what

\* The unit of a bind mount as main asks for it, written with the
\* dependency on its target.
C19_Witness ==
    /\ m_pc = "returned"
    /\ BindCall
    /\ m_where = <<"var", "lib", "containers">>
    /\ m_what = <<"var", "mnt", "instance-storage", "containers">>
    /\ m_files[m_name[1]].RequiresMountsFor = m_what


\* The pairs of places in the configured list whose directories have the
\* same final component.
SameBasename ==
    { p \in (1..Len(config.directories)) \X (1..Len(config.directories)) :
        /\ p[1] < p[2]
        /\ config.directories[p[1]] # <<>>
        /\ config.directories[p[2]] # <<>>
        /\ config.directories[p[1]][Len(config.directories[p[1]])]
             = config.directories[p[2]][Len(config.directories[p[2]])] }

\* C20: when two configured directories have the same final component, the
\* creation of the target of the second never succeeds and, once tried, is
\* the last operation of a run that ends with a non-zero exit; the second
\* directory's turn does nothing else, so the directory is not removed in
\* it; the first has by then been removed and created again (and is empty
\* when no other configured directory is nested with it); and the run
\* enables no bind-mount unit and does not end provisioned.
C20_BasenameCollisionFatal ==
    \A p \in SameBasename :
        LET first == config.directories[p[1]]
        IN  /\ \A k \in LoopCalls :
                 calls[k].idx = p[2] =>
                    /\ calls[k].step = "create_target"
                    /\ calls[k].exit # 0
                    /\ k = Len(calls)
                    /\ Failed
                    /\ \E r \in CallsOf("remove_all") :
                         /\ r < k
                         /\ calls[r].idx = p[1]
                         /\ calls[r].exit = 0
                         /\ calls[r].targets = <<first>>
                         /\ \E c \in OkStepsOf("create_dir") :
                              r < c /\ c < k /\ calls[c].idx = p[1]
                    /\ ~NestedWithAnother(first) =>
                         /\ first \in DOMAIN fs
                         /\ Under(fs, first) = {}
                         /\ \A q \in Under(fs0, first) : q \notin DOMAIN fs
            /\ \A k \in LoopCalls : calls[k].idx <= p[2]
            /\ BindEnables = {}
            /\ \A j \in 1..Len(config.directories) :
                 unit_name(config.directories[j]) \notin enabled
            /\ ~Provisioned
            /\ pc \notin {"daemon_reload_units", "enable_units"}

\* A run that emptied /var/lib/containers and failed at the target of
\* /var/log/containers.
C20_Witness ==
    /\ config.directories =
         <<<<"var", "lib", "containers">>, <<"var", "log", "containers">>>>
    /\ Failed
    /\ calls[Len(calls)].step = "create_target"
    /\ calls[Len(calls)].idx = 2
    /\ Under(fs0, <<"var", "lib", "containers">>) # {}
    /\ Under(fs, <<"var", "lib", "containers">>) = {}
    /\ <<"var", "log", "containers", "pod.log">> \in DOMAIN fs


====
